---------------------------- MODULE Spec2Model ----------------------------
(***************************************************************************)
(* Model of partfinder/alignment.py: the line-oriented PHYLIP parser       *)
(* (AlignmentParser) and the Alignment container that copies the parser's  *)
(* result.  One action per loop iteration / statement group of the parser; *)
(* the input stream is the environment: each readline() returns one of the *)
(* lines of Lines, or the empty string at (and for ever after) end of      *)
(* stream.  Under TextSpec the stream is a StringIO over a text chosen at   *)
(* the start, and the Alignment methods same_as and write_phylip and the   *)
(* SubsetAlignment constructor are steps taken after the parse.            *)
(*                                                                         *)
(* Text is a sequence of one-character strings; a species name or a token  *)
(* is such a sequence too.                                                 *)
(***************************************************************************)
EXTENDS Integers, Sequences, FiniteSets, TLC

VARIABLES
    p,            \* the AlignmentParser object (its fields, __init__ 43-56)
    pc,           \* the statement of AlignmentParser.parse the run is at
    raised,       \* the exception that ended the run, "none" while there is none
    caller,       \* who built the parser: "Alignment" (parse_stream) or "direct"
    eof,          \* the stream has returned the empty string
    nread,        \* lines the stream has delivered so far
    line,         \* the local `line` / `curline`: what readline() last returned
    cur_species,  \* local of parse_species_block
    species_num,  \* local of parse_interleave_block
    blank_lines,  \* local of parse_interleave_block
    a,            \* the Alignment object (species, sequence_length, data)
    log,          \* the message of the last log.error call, "none" before any
    before,       \* history: the Alignment as it was when the parse was called
    last_write,   \* history: the last matrix assignment attempted
    lens,         \* history: base counts of the data lines accepted in this block
    names,        \* history: first tokens of the accepted name + bases lines
    stream,       \* the stream being read: a StringIO over a known text, or
                  \* a stream whose content the environment decides
    text,         \* the argument of Alignment.parse(text)
    other,        \* a second Alignment object
    same,         \* what a.same_as(other) and other.same_as(a) returned
    written,      \* what a.write_phylip(stream) wrote
    sub           \* the outcome of SubsetAlignment(a, subset)

\* the variables the parser's own steps leave alone
scenario == <<stream, text, other, same, written, sub>>

vars == <<p, pc, raised, caller, eof, nread, line, cur_species, species_num,
          blank_lines, a, log, before, last_write, lens, names, stream, text,
          other, same, written, sub>>

-----------------------------------------------------------------------------
(* Bounds of the model *)

\* lines a stream delivers before its end
MaxLines == 6

\* current_line (a counter used in log messages only) is kept modulo
\* MaxCurrentLine + 1
MaxCurrentLine == 8

-----------------------------------------------------------------------------
(* Python values *)

\* None, as the value of block_len (a length is never negative)
None == -1

\* valid_bases=None: no alphabet configured
NoAlphabet == [configured |-> FALSE, chars |-> {}]

\* data = None: no matrix allocated
NoData == [shape |-> <<>>, cell |-> <<>>]

\* "AGCTUMRWSYKBDHVNX.-?"
valid_nucleotide ==
    [configured |-> TRUE,
     chars |-> {"A", "G", "C", "T", "U", "M", "R", "W", "S", "Y", "K", "B",
                "D", "H", "V", "N", "X", ".", "-", "?"}]

Min(x, y) == IF x < y THEN x ELSE y
Max(x, y) == IF x > y THEN x ELSE y

-----------------------------------------------------------------------------
(* str methods and conversions *)

Whitespace == {" ", "\n", "\t"}

Lower == <<"a", "b", "c", "d", "e", "f", "g", "h", "i", "j", "k", "l", "m",
           "n", "o", "p", "q", "r", "s", "t", "u", "v", "w", "x", "y", "z">>
Upper == <<"A", "B", "C", "D", "E", "F", "G", "H", "I", "J", "K", "L", "M",
           "N", "O", "P", "Q", "R", "S", "T", "U", "V", "W", "X", "Y", "Z">>
Digit == <<"0", "1", "2", "3", "4", "5", "6", "7", "8", "9">>

IndexIn(seq, c) == CHOOSE i \in 1..Len(seq) : seq[i] = c
IsIn(seq, c) == \E i \in 1..Len(seq) : seq[i] = c

\* the k-th smallest member of a set of numbers
nth(S, k) == CHOOSE e \in S : Cardinality({x \in S : x <= e}) = k

\* str.upper() on one character
upper_char(c) == IF IsIn(Lower, c) THEN Upper[IndexIn(Lower, c)] ELSE c

\* str.upper()
upper(s) == [i \in 1..Len(s) |-> upper_char(s[i])]

\* the character of byte 0, written here with two characters
NUL == "\\0"

\* the byte of a character (ASCII), as numpy.fromstring(..., 'u1') gives it
ord(c) ==
    IF IsIn(Upper, c) THEN 64 + IndexIn(Upper, c)
    ELSE IF IsIn(Lower, c) THEN 96 + IndexIn(Lower, c)
    ELSE IF IsIn(Digit, c) THEN 47 + IndexIn(Digit, c)
    ELSE CASE c = " " -> 32 [] c = "\n" -> 10 [] c = "\t" -> 9
           [] c = "+" -> 43 [] c = "-" -> 45 [] c = "." -> 46
           [] c = "?" -> 63 [] c = NUL -> 0

\* the character of a byte, as ndarray.tostring() gives it
chr(k) ==
    IF k \in 65..90 THEN Upper[k - 64]
    ELSE IF k \in 97..122 THEN Lower[k - 96]
    ELSE IF k \in 48..57 THEN Digit[k - 47]
    ELSE CASE k = 32 -> " " [] k = 10 -> "\n" [] k = 9 -> "\t"
           [] k = 43 -> "+" [] k = 45 -> "-" [] k = 46 -> "."
           [] k = 63 -> "?" [] k = 0 -> NUL

RECURSIVE decimal_digits(_)
decimal_digits(n) ==
    IF n < 10 THEN <<Digit[n + 1]>>
    ELSE Append(decimal_digits(n \div 10), Digit[(n % 10) + 1])

\* "%d" % n
format_d(n) ==
    IF n < 0 THEN <<"-">> \o decimal_digits(0 - n) ELSE decimal_digits(n)

\* the lines readline() cuts a text into: each ends after its "\n", the last
\* one at the end of the text
readlines(s) ==
    LET ends == {i \in 1..Len(s) : s[i] = "\n" \/ i = Len(s)}
    IN  [k \in 1..Cardinality(ends) |->
            SubSeq(s, IF k = 1 THEN 1 ELSE nth(ends, k - 1) + 1, nth(ends, k))]

\* the text made of the given lines
RECURSIVE join(_)
join(ls) == IF ls = <<>> THEN <<>> ELSE Head(ls) \o join(Tail(ls))

RECURSIVE lstrip(_)
lstrip(s) == IF s # <<>> /\ Head(s) \in Whitespace THEN lstrip(Tail(s)) ELSE s

RECURSIVE rstrip(_)
rstrip(s) ==
    IF s # <<>> /\ s[Len(s)] \in Whitespace
    THEN rstrip(SubSeq(s, 1, Len(s) - 1))
    ELSE s

\* str.strip()
strip(s) == rstrip(lstrip(s))

\* str.split(): the maximal runs of non-whitespace characters
split(s) ==
    LET starts == {i \in 1..Len(s) :
                      /\ s[i] \notin Whitespace
                      /\ i = 1 \/ s[i - 1] \in Whitespace}
        ends   == {i \in 1..Len(s) :
                      /\ s[i] \notin Whitespace
                      /\ i = Len(s) \/ s[i + 1] \in Whitespace}
    IN  [k \in 1..Cardinality(starts) |->
            SubSeq(s, nth(starts, k), nth(ends, k))]

\* the digits of an integer literal, after an optional sign
int_digits(tok) ==
    IF tok # <<>> /\ tok[1] \in {"-", "+"} THEN Tail(tok) ELSE tok

\* int(tok) does not raise ValueError
is_int(tok) ==
    /\ int_digits(tok) # <<>>
    /\ \A i \in 1..Len(int_digits(tok)) : IsIn(Digit, int_digits(tok)[i])

RECURSIVE digits_value(_)
digits_value(ds) ==
    IF ds = <<>> THEN 0
    ELSE 10 * digits_value(SubSeq(ds, 1, Len(ds) - 1))
         + (IndexIn(Digit, ds[Len(ds)]) - 1)

\* int(tok), for a token is_int accepts
int(tok) ==
    IF tok[1] = "-" THEN 0 - digits_value(int_digits(tok))
    ELSE digits_value(int_digits(tok))

-----------------------------------------------------------------------------
(* numpy *)

\* numpy.zeros given the two dimensions in the other order
zeros_transposed(rows, cols) ==
    [shape |-> <<cols, rows>>,
     cell  |-> [r \in 0..cols - 1 |-> [c \in 0..rows - 1 |-> 0]]]

\* numpy.zeros((rows, cols), 'u1'), rows and cols not negative
zeros(rows, cols) ==
    [shape |-> <<rows, cols>>,
     cell  |-> [r \in 0..(rows - 1) |-> [c \in 0..(cols - 1) |-> 0]]]

\* data[row, start:stop] = arr.  The slice is clipped to the row's length;
\* arr is stored when it has as many items as the clipped slice, an arr of one
\* item is broadcast over the clipped slice (over nothing when the slice is
\* empty), and any other arr is rejected with ValueError.
setitem(data, row, start, stop, arr) ==
    LET cols == data.shape[2]
        lo   == Min(start, cols)
        hi   == Min(stop, cols)
        n    == Max(hi - lo, 0)
        at(c) == IF Len(arr) = n THEN arr[c - lo + 1] ELSE arr[1]
    IN  IF row >= data.shape[1]
        THEN [raised |-> "IndexError", data |-> data, outcome |-> "rejected"]
        ELSE IF Len(arr) # n /\ Len(arr) # 1
        THEN [raised |-> "ValueError", data |-> data, outcome |-> "rejected"]
        ELSE [raised  |-> "none",
              data    |-> [data EXCEPT !.cell[row] =
                              [c \in 0..(cols - 1) |->
                                  IF lo <= c /\ c < hi THEN at(c) ELSE @[c]]],
              outcome |-> IF Len(arr) = n THEN "stored"
                          ELSE IF n = 0 THEN "dropped" ELSE "broadcast"]

-----------------------------------------------------------------------------
(* AlignmentParser *)

\* AlignmentParser.__init__
new_parser(valid_bases) ==
    [current_line    |-> 0,
     cur_len         |-> 0,
     start_base      |-> 0,
     end_base        |-> 0,
     valid_bases     |-> valid_bases,
     block_len       |-> None,
     species         |-> <<>>,
     species_count   |-> 0,
     sequence_length |-> 0,
     data            |-> NoData]

\* self.current_line += 1
next_line(q) ==
    [q EXCEPT !.current_line = IF @ < MaxCurrentLine THEN @ + 1 ELSE 0]

\* bases_to_array without line 59: the fragment is checked and encoded as given
bases_to_array_as_given(q, bases) ==
    LET should_be_empty == SelectSeq(bases,
                               LAMBDA c : c \notin q.valid_bases.chars)
    IN  IF q.valid_bases # NoAlphabet /\ should_be_empty # <<>>
        THEN [raised |-> "AlignmentError", log |-> "invalid_bases", arr |-> <<>>]
        ELSE [raised |-> "none", log |-> "none",
              arr |-> [i \in 1..Len(bases) |-> ord(bases[i])]]

\* AlignmentParser.bases_to_array
bases_to_array(q, bases) ==
    LET upper_bases     == upper(bases)
        should_be_empty == SelectSeq(upper_bases,
                               LAMBDA c : c \notin q.valid_bases.chars)
    IN  IF q.valid_bases # NoAlphabet /\ should_be_empty # <<>>
        THEN [raised |-> "AlignmentError", log |-> "invalid_bases", arr |-> <<>>]
        ELSE [raised |-> "none", log |-> "none",
              arr |-> [i \in 1..Len(upper_bases) |-> ord(upper_bases[i])]]

\* check_block without the comparison of lines 129-132
check_block_first_only(q) ==
    IF q.block_len = None
    THEN LET q1 == [q EXCEPT !.block_len = q.cur_len,
                             !.end_base = q.start_base + q.cur_len]
         IN  IF q1.end_base > q1.sequence_length + 1
             THEN [p |-> q1, raised |-> "AlignmentError", log |-> "more_than_header"]
             ELSE [p |-> q1, raised |-> "none", log |-> "none"]
    ELSE [p |-> q, raised |-> "none", log |-> "none"]

\* AlignmentParser.check_block
check_block(q) ==
    IF q.block_len = None
    THEN LET q1 == [q EXCEPT !.block_len = q.cur_len,
                             !.end_base = q.start_base + q.cur_len]
         IN  IF q1.end_base > q1.sequence_length + 1
             THEN [p |-> q1, raised |-> "AlignmentError", log |-> "more_than_header"]
             ELSE [p |-> q1, raised |-> "none", log |-> "none"]
    ELSE IF q.cur_len # q.block_len
         THEN [p |-> q, raised |-> "AlignmentError", log |-> "differs_in_length"]
         ELSE [p |-> q, raised |-> "none", log |-> "none"]

\* One pass of the loop of parse_header (lines 90-115) that has read l.
\* returned: the function returned (the header was found).
parse_header_line(q, l) ==
    LET q1   == next_line(q)
        log1 == IF Len(l) = 0 THEN "no_data" ELSE "none"
        bits == split(l)
    IN  IF Len(strip(l)) = 0
        THEN [p |-> q1, raised |-> "none", log |-> log1, returned |-> FALSE]
        ELSE IF Len(bits) = 2
        THEN IF is_int(bits[1]) /\ is_int(bits[2])
             THEN [p |-> [q1 EXCEPT !.species_count = int(bits[1]),
                                    !.sequence_length = int(bits[2])],
                   raised |-> "none", log |-> log1, returned |-> TRUE]
             ELSE [p |-> q1, raised |-> "ValueError", log |-> log1,
                   returned |-> FALSE]
        ELSE [p |-> q1, raised |-> "AlignmentError", log |-> "no_header",
              returned |-> FALSE]

\* no matrix assignment attempted
NoWrite ==
    [attempted |-> FALSE, row |-> 0, start |-> 0, stop |-> 0, n |-> 0,
     outcome |-> "none"]

\* the write of lines 171-172 and 218-219: arr = bases_to_array(bases), then
\* data[row, start_base:end_base] = arr
write_bases(q, row, bases) ==
    LET ba == bases_to_array(q, bases)
        w  == setitem(q.data, row, q.start_base, q.end_base, ba.arr)
    IN  IF ba.raised # "none"
        THEN [p |-> q, raised |-> ba.raised, log |-> ba.log, wrote |-> FALSE,
              write |-> NoWrite]
        ELSE [p |-> [q EXCEPT !.data = w.data], raised |-> w.raised,
              log |-> "none", wrote |-> w.raised = "none",
              write |-> [attempted |-> TRUE, row |-> row,
                         start |-> q.start_base, stop |-> q.end_base,
                         n |-> Len(ba.arr), outcome |-> w.outcome]]


\* species.append that skips a name it already holds
append_species_once(q, spec) ==
    IF \E i \in 1..Len(q.species) : q.species[i] = spec
    THEN q
    ELSE [q EXCEPT !.species = Append(@, spec)]

\* self.species.append(spec)
append_species(q, spec) == [q EXCEPT !.species = Append(@, spec)]

\* One pass of the loop of parse_species_block (lines 146-174) that has read l.
\* accepted: the pass reached cur_species += 1.
parse_species_line(q, l, cur) ==
    LET q1   == next_line(q)
        log1 == IF Len(l) = 0 THEN "no_data" ELSE "none"
        bits == split(l)
        q2   == [q1 EXCEPT !.cur_len = Len(bits[2])]
        cb   == check_block(q2)
        q3   == append_species(cb.p, bits[1])
        w    == write_bases(q3, cur, bits[2])
    IN  IF Len(bits) = 0
        THEN [p |-> q1, raised |-> "none", log |-> log1, accepted |-> FALSE,
              write |-> NoWrite]
        ELSE IF Len(bits) # 2
        THEN [p |-> q1, raised |-> "AlignmentError", log |-> "not_two_pieces",
              accepted |-> FALSE, write |-> NoWrite]
        ELSE IF cb.raised # "none"
        THEN [p |-> cb.p, raised |-> cb.raised, log |-> cb.log,
              accepted |-> FALSE, write |-> NoWrite]
        ELSE [p |-> w.p, raised |-> w.raised, log |-> w.log,
              accepted |-> w.wrote, write |-> w.write]

\* what a pass of the loop of parse_interleave_block that stops early yields
interleave_result(q, r, lg) ==
    [p |-> q, raised |-> r, log |-> lg, accepted |-> FALSE, blank |-> FALSE,
     returned |-> FALSE, write |-> NoWrite]

\* the end of the stream taken as the end of the blocks whatever species_num is
interleave_eof_any(q, num) ==
    [p |-> q, raised |-> "none", log |-> "none", accepted |-> FALSE,
     blank |-> FALSE, returned |-> TRUE, write |-> NoWrite]

\* parse_interleave_block, lines 188-195: readline() returned the empty string
interleave_eof(q, num) ==
    IF num # 0
    THEN interleave_result(q, "AlignmentError", "not_enough_lines")
    ELSE [interleave_result(q, "none", "none") EXCEPT !.returned = TRUE]

\* a blank line skipped whatever species_num is
interleave_blank_any(q, num) ==
    [p |-> q, raised |-> "none", log |-> "none", accepted |-> FALSE,
     blank |-> TRUE, returned |-> FALSE, write |-> NoWrite]

\* parse_interleave_block, lines 201-209: the line is blank
interleave_blank(q, num) ==
    IF num # 0
    THEN interleave_result(q, "AlignmentError", "blank_in_block")
    ELSE [interleave_result(q, "none", "none") EXCEPT !.blank = TRUE]

\* the separator never asked for
separator_never_missing(blanks) == FALSE

\* parse_interleave_block, line 211: a line of bases has no blank line before it
separator_missing(blanks) == blanks = 0

\* One pass of the loop of parse_interleave_block (lines 184-221) that has
\* read l, with the locals species_num = num and blank_lines = blanks.
\* returned: the function returned False; blank: the pass reached
\* blank_lines += 1; accepted: the pass reached species_num += 1.
parse_interleave_line(q, l, num, blanks) ==
    LET q1    == [next_line(q) EXCEPT !.cur_len = Len(l)]
        bases == strip(l)
        q2    == [q1 EXCEPT !.cur_len = Len(bases)]
        cb    == check_block(q2)
        w     == write_bases(cb.p, num, bases)
    IN  IF Len(l) = 0 THEN interleave_eof(q1, num)
        ELSE IF Len(bases) = 0 THEN interleave_blank(q2, num)
        ELSE IF separator_missing(blanks)
        THEN interleave_result(q2, "AlignmentError", "expected_blank")
        ELSE IF cb.raised # "none"
        THEN interleave_result(cb.p, cb.raised, cb.log)
        ELSE [interleave_result(w.p, w.raised, w.log)
                 EXCEPT !.accepted = w.wrote, !.write = w.write]

\* a block that ends without line 176 / 223: start_base stays
add_block_len_never(q) ==
    IF q.block_len = None
    THEN [p |-> q, raised |-> "TypeError"]
    ELSE [p |-> q, raised |-> "none"]

\* self.start_base += self.block_len; None (no line was read) is a TypeError
add_block_len(q) ==
    IF q.block_len = None
    THEN [p |-> q, raised |-> "TypeError"]
    ELSE [p |-> [q EXCEPT !.start_base = @ + q.block_len], raised |-> "none"]

-----------------------------------------------------------------------------
(* The input stream *)

\* The lines a stream can hold: headers, name + bases lines, bases-only
\* lines, blank lines and malformed ones.  Every line ends with its newline.
Lines ==
    { <<"\n">>,
      <<" ", "\n">>,
      <<"1", " ", "2", "\n">>,
      <<"2", " ", "2", "\n">>,
      <<"0", " ", "2", "\n">>,
      <<"1", " ", "0", "\n">>,
      <<"-", "1", " ", "2", "\n">>,
      <<"2", "\n">>,
      <<"x", " ", "2", "\n">>,
      <<"s", " ", "A", "\n">>,
      <<"t", " ", "c", "\n">>,
      <<"s", " ", "A", "C", "\n">>,
      <<"t", " ", "a", "Z", "\n">>,
      <<"s", " ", "A", "C", "A", "\n">>,
      <<"s", " ", "A", "C", "A", "C", "\n">>,
      <<"s", " ", "A", " ", "C", "\n">>,
      <<"A", "\n">>,
      <<"c", "\n">>,
      <<"A", "C", "\n">>,
      <<"Z", "\n">> }

\* a stream of unknown content
AnyStream == [known |-> FALSE, lines |-> <<>>]

\* StringIO(text)
StringIO(t) == [known |-> TRUE, lines |-> readlines(t)]

\* what stream.readline() can return: the empty string at the end of the
\* stream (and at every read after it), else the next line
Readable ==
    IF stream.known
    THEN {IF nread < Len(stream.lines) THEN stream.lines[nread + 1] ELSE <<>>}
    ELSE IF eof THEN {<<>>}
         ELSE {<<>>} \cup (IF nread < MaxLines THEN Lines ELSE {})

\* the stream after readline() returned l
Read(l) ==
    /\ line' = l
    /\ eof' = (Len(l) = 0)
    /\ nread' = IF Len(l) = 0 THEN nread ELSE nread + 1

\* log.error leaves its message; a step without log.error leaves the last one
Logged(msg) == log' = IF msg = "none" THEN log ELSE msg

-----------------------------------------------------------------------------
(* Alignment *)

\* Alignment.__init__
new_alignment == [species |-> <<>>, sequence_length |-> 0, data |-> NoData]

\* an Alignment that an earlier parse of the lines "1 2", "s AC" has filled
filled_alignment ==
    [species |-> << <<"s">> >>,
     sequence_length |-> 2,
     data |-> [shape |-> <<1, 2>>,
               cell  |-> [r \in {0} |-> [c \in 0..1 |-> ord(<<"A", "C">>[c + 1])]]]]

\* the first name-length characters of a name that write_phylip keeps
NameLimit == 99

\* sequence.tostring() for row i of the matrix
tostring(data, i) == [j \in 1..data.shape[2] |-> chr(data.cell[i][j - 1])]

\* write_phylip that writes every name whole
RECURSIVE write_rows_whole_name(_, _)
write_rows_whole_name(al, i) ==
    IF i >= Len(al.species) THEN <<>>
    ELSE al.species[i + 1] \o <<" ", " ", " ", " ">>
         \o tostring(al.data, i) \o <<"\n">>
         \o write_rows_whole_name(al, i + 1)

\* Alignment.write_phylip, lines 293-299: the rows from row i on
RECURSIVE write_rows(_, _)
write_rows(al, i) ==
    IF i >= Len(al.species) THEN <<>>
    ELSE SubSeq(al.species[i + 1], 1, Min(NameLimit, Len(al.species[i + 1])))
         \o <<" ", " ", " ", " ">>
         \o tostring(al.data, i) \o <<"\n">>
         \o write_rows(al, i + 1)

\* Alignment.write_phylip: the text written to the stream
write_phylip(al) ==
    format_d(Len(al.species)) \o <<" ">> \o format_d(al.sequence_length)
    \o <<"\n">> \o write_rows(al, 0)

\* same_as that stops after comparing the two sizes
same_as_sizes(self, oth) ==
    IF self.sequence_length # oth.sequence_length
    THEN [raised |-> "none", value |-> FALSE]
    ELSE IF Len(self.species) # Len(oth.species)
    THEN [raised |-> "none", value |-> FALSE]
    ELSE [raised |-> "none", value |-> TRUE]

\* Alignment.same_as.  (self.data == other.data).all() is a method call on
\* an array only when both are arrays of one shape.
same_as(self, oth) ==
    IF self.sequence_length # oth.sequence_length
    THEN [raised |-> "none", value |-> FALSE]
    ELSE IF Len(self.species) # Len(oth.species)
    THEN [raised |-> "none", value |-> FALSE]
    ELSE IF self.data = NoData \/ oth.data = NoData
            \/ self.data.shape # oth.data.shape
    THEN [raised |-> "AttributeError", value |-> FALSE]
    ELSE IF \E r \in 0..self.data.shape[1] - 1 :
               \E c \in 0..self.data.shape[2] - 1 :
                  self.data.cell[r][c] # oth.data.cell[r][c]
    THEN [raised |-> "none", value |-> FALSE]
    ELSE [raised |-> "none", value |-> TRUE]

\* same_as has not been called
NoAnswer ==
    [called |-> FALSE,
     ab |-> [raised |-> "none", value |-> FALSE],
     ba |-> [raised |-> "none", value |-> FALSE]]

\* max(subset.columns), for a list that is not empty
max(columns) ==
    CHOOSE m \in {columns[i] : i \in 1..Len(columns)} :
        \A i \in 1..Len(columns) : columns[i] <= m

\* one site more than line 309 asks for
site_max_one_more(columns) == max(columns) + 2

\* SubsetAlignment.__init__, line 309
site_max(columns) == max(columns) + 1

\* source.data[:, columns] with the columns taken in the opposite order
take_columns_reversed(data, columns) ==
    [shape |-> <<data.shape[1], Len(columns)>>,
     cell  |-> [r \in 0..data.shape[1] - 1 |->
                  [j \in 0..Len(columns) - 1 |->
                     data.cell[r][columns[Len(columns) - j]]]]]

\* source.data[:, columns]
take_columns(data, columns) ==
    [shape |-> <<data.shape[1], Len(columns)>>,
     cell  |-> [r \in 0..data.shape[1] - 1 |->
                  [j \in 0..Len(columns) - 1 |-> data.cell[r][columns[j + 1]]]]]

\* no SubsetAlignment has been asked for
NoSubset ==
    [raised |-> "none", built |-> FALSE, columns |-> <<>>,
     log |-> [said |-> FALSE, site |-> 0, sites |-> 0],
     alignment |-> new_alignment]

\* SubsetAlignment.__init__(source, subset), subset.columns = columns.
\* max() of an empty list is a ValueError.
SubsetAlignment(source, columns) ==
    IF columns = <<>>
    THEN [NoSubset EXCEPT !.raised = "ValueError"]
    ELSE IF site_max(columns) > source.sequence_length
    THEN [NoSubset EXCEPT !.raised = "AlignmentError",
                          !.columns = columns,
                          !.log = [said |-> TRUE,
                                   site |-> site_max(columns),
                                   sites |-> source.sequence_length]]
    ELSE [NoSubset EXCEPT
             !.built = TRUE,
             !.columns = columns,
             !.alignment = [species |-> source.species,
                            sequence_length |-> Len(columns),
                            data |-> take_columns(source.data, columns)]]

\* The Alignment is new or holds the result of an earlier parse; no parse is
\* running.
Init ==
    /\ stream = AnyStream
    /\ text = <<>>
    /\ other = new_alignment
    /\ same = NoAnswer
    /\ written = <<>>
    /\ sub = NoSubset
    /\ a \in {new_alignment, filled_alignment}
    /\ before = a
    /\ p = new_parser(NoAlphabet)
    /\ pc = "idle"
    /\ raised = "none"
    /\ caller = "none"
    /\ eof = FALSE
    /\ nread = 0
    /\ line = <<>>
    /\ cur_species = 0
    /\ species_num = 0
    /\ blank_lines = 0
    /\ log = "none"
    /\ last_write = NoWrite
    /\ lens = <<>>
    /\ names = <<>>

Running == raised = "none"

\* Alignment.parse_stream, lines 261-262: p = AlignmentParser(stream), then
\* p.parse() begins
ParseStream ==
    /\ pc = "idle" /\ Running
    /\ p' = new_parser(NoAlphabet)
    /\ caller' = "Alignment"
    /\ pc' = "parse_header"
    /\ UNCHANGED <<raised, eof, nread, line, cur_species, species_num,
                   blank_lines, a, log, before, last_write, lens, names>>
    /\ UNCHANGED scenario

\* AlignmentParser(stream, valid_bases).parse() called without an Alignment
NewParser ==
    /\ pc = "idle" /\ Running
    /\ \E vb \in {NoAlphabet, valid_nucleotide} : p' = new_parser(vb)
    /\ caller' = "direct"
    /\ pc' = "parse_header"
    /\ UNCHANGED <<raised, eof, nread, line, cur_species, species_num,
                   blank_lines, a, log, before, last_write, lens, names>>
    /\ UNCHANGED scenario

\* parse_header: one pass of its loop
ParseHeader ==
    /\ pc = "parse_header" /\ Running
    /\ \E l \in Readable :
         LET r == parse_header_line(p, l)
         IN  /\ Read(l)
             /\ p' = r.p
             /\ raised' = r.raised
             /\ Logged(r.log)
             /\ pc' = IF r.returned THEN "allocate" ELSE pc
    /\ UNCHANGED <<caller, cur_species, species_num, blank_lines, a, before,
                   last_write, lens, names>>
    /\ UNCHANGED scenario

\* parse, lines 76-79: self.data = numpy.zeros((species_count,
\* sequence_length), 'u1'); negative dimensions are a ValueError
Allocate ==
    /\ pc = "allocate" /\ Running
    /\ IF p.species_count < 0 \/ p.sequence_length < 0
       THEN /\ raised' = "ValueError"
            /\ UNCHANGED <<p, pc>>
       ELSE /\ p' = [p EXCEPT !.data = zeros(p.species_count, p.sequence_length)]
            /\ pc' = "parse_species_block"
            /\ UNCHANGED raised
    /\ UNCHANGED <<caller, eof, nread, line, cur_species, species_num,
                   blank_lines, a, log, before, last_write, lens, names>>
    /\ UNCHANGED scenario

\* parse_species_block, lines 141-144
EnterSpeciesBlock ==
    /\ pc = "parse_species_block" /\ Running
    /\ p' = [p EXCEPT !.block_len = None]
    /\ cur_species' = 0
    /\ lens' = <<>>
    /\ pc' = "species_loop"
    /\ UNCHANGED <<raised, caller, eof, nread, line, species_num, blank_lines,
                   a, log, before, last_write, names>>
    /\ UNCHANGED scenario

\* parse_species_block: one pass of its loop
SpeciesLine ==
    /\ pc = "species_loop" /\ Running
    /\ cur_species < p.species_count
    /\ \E l \in Readable :
         LET r == parse_species_line(p, l, cur_species)
         IN  /\ Read(l)
             /\ p' = r.p
             /\ raised' = r.raised
             /\ Logged(r.log)
             /\ cur_species' = IF r.accepted THEN cur_species + 1 ELSE cur_species
             /\ lens' = IF r.accepted THEN Append(lens, r.p.cur_len) ELSE lens
             /\ names' = IF r.accepted THEN Append(names, split(l)[1]) ELSE names
             /\ last_write' = IF r.write.attempted THEN r.write ELSE last_write
    /\ UNCHANGED <<pc, caller, species_num, blank_lines, a, before>>
    /\ UNCHANGED scenario

\* parse_species_block, line 176, once the loop has ended
LeaveSpeciesBlock ==
    /\ pc = "species_loop" /\ Running
    /\ ~(cur_species < p.species_count)
    /\ p' = add_block_len(p).p
    /\ raised' = add_block_len(p).raised
    /\ pc' = IF add_block_len(p).raised = "none"
             THEN "parse_interleave_block" ELSE pc
    /\ UNCHANGED <<caller, eof, nread, line, cur_species, species_num,
                   blank_lines, a, log, before, last_write, lens, names>>
    /\ UNCHANGED scenario

\* parse_interleave_block, lines 179-181
EnterInterleaveBlock ==
    /\ pc = "parse_interleave_block" /\ Running
    /\ species_num' = 0
    /\ blank_lines' = 0
    /\ p' = [p EXCEPT !.block_len = None]
    /\ lens' = <<>>
    /\ pc' = "interleave_loop"
    /\ UNCHANGED <<raised, caller, eof, nread, line, cur_species, a, log,
                   before, last_write, names>>
    /\ UNCHANGED scenario

\* parse_interleave_block: one pass of its loop; on `return False` the loop
\* of parse (line 85) ends and parse returns
InterleaveLine ==
    /\ pc = "interleave_loop" /\ Running
    /\ species_num < p.species_count
    /\ \E l \in Readable :
         LET r == parse_interleave_line(p, l, species_num, blank_lines)
         IN  /\ Read(l)
             /\ p' = r.p
             /\ raised' = r.raised
             /\ Logged(r.log)
             /\ species_num' = IF r.accepted THEN species_num + 1 ELSE species_num
             /\ blank_lines' = IF r.blank THEN blank_lines + 1 ELSE blank_lines
             /\ lens' = IF r.accepted THEN Append(lens, r.p.cur_len) ELSE lens
             /\ last_write' = IF r.write.attempted THEN r.write ELSE last_write
             /\ pc' = IF r.returned THEN "done" ELSE pc
    /\ UNCHANGED <<caller, cur_species, a, before, names>>
    /\ UNCHANGED scenario

\* parse_interleave_block, lines 223-224, once the loop has ended: return
\* True, so parse (line 85) calls parse_interleave_block again
LeaveInterleaveBlock ==
    /\ pc = "interleave_loop" /\ Running
    /\ ~(species_num < p.species_count)
    /\ p' = add_block_len(p).p
    /\ raised' = add_block_len(p).raised
    /\ pc' = IF add_block_len(p).raised = "none"
             THEN "parse_interleave_block" ELSE pc
    /\ UNCHANGED <<caller, eof, nread, line, cur_species, species_num,
                   blank_lines, a, log, before, last_write, lens, names>>
    /\ UNCHANGED scenario

\* the copy of lines 265-267 done whether p.parse() returned or raised
CopyOutAlways ==
    /\ pc # "copied"
    /\ pc = "done" \/ ~Running
    /\ caller = "Alignment"
    /\ a' = [a EXCEPT !.sequence_length = p.sequence_length,
                      !.species = p.species,
                      !.data = p.data]
    /\ pc' = "copied"
    /\ UNCHANGED <<p, raised, caller, eof, nread, line, cur_species,
                   species_num, blank_lines, log, before, last_write, lens,
                   names>>
    /\ UNCHANGED scenario

\* Alignment.parse_stream, lines 265-267, after p.parse() has returned
CopyOut ==
    /\ pc = "done" /\ Running
    /\ caller = "Alignment"
    /\ a' = [a EXCEPT !.sequence_length = p.sequence_length,
                      !.species = p.species,
                      !.data = p.data]
    /\ pc' = "copied"
    /\ UNCHANGED <<p, raised, caller, eof, nread, line, cur_species,
                   species_num, blank_lines, log, before, last_write, lens,
                   names>>
    /\ UNCHANGED scenario

Next ==
    \/ ParseStream
    \/ NewParser
    \/ ParseHeader
    \/ Allocate
    \/ EnterSpeciesBlock
    \/ SpeciesLine
    \/ LeaveSpeciesBlock
    \/ EnterInterleaveBlock
    \/ InterleaveLine
    \/ LeaveInterleaveBlock
    \/ CopyOut

Spec == Init /\ [][Next]_vars

\* The interpreter keeps running the parse: a step that can be taken is taken.
FairSpec == Spec /\ WF_vars(Next)

-----------------------------------------------------------------------------
(* Whole texts: Alignment.parse(text), same_as, write_phylip, SubsetAlignment *)

\* lines a text given to Alignment.parse has at most
MaxTextLines == 4

\* length of subset.columns, at most
MaxColumns == 2

\* the largest column index a subset asks for
MaxColumnIndex == 2

\* a species name one character longer than write_phylip keeps
LongName == [i \in 1..NameLimit + 1 |-> "s"]

\* the lines texts are made of: headers, name + bases lines (one with the
\* long name), a blank line, a bases-only line
TextLines ==
    { <<"1", " ", "2", "\n">>,
      <<"2", " ", "2", "\n">>,
      <<"1", " ", "0", "\n">>,
      <<"s", " ", "A", "\n">>,
      <<"t", " ", "c", "\n">>,
      <<"s", " ", "A", "C", "\n">>,
      LongName \o <<" ", "A", "\n">>,
      <<"\n">>,
      <<"c", "\n">> }

Texts ==
    {join(ls) : ls \in UNION {[1..n -> TextLines] : n \in 0..MaxTextLines}}

\* the characters a base is changed to
BaseChars == {"A", "a", "C"}

\* the lines after the header (the first line that is not blank) that are
\* not blank
DataLines(ls) ==
    {i \in 1..Len(ls) :
        /\ strip(ls[i]) # <<>>
        /\ \E h \in 1..i - 1 : strip(ls[h]) # <<>>}

\* the positions of the bases in a data line: those of its last token
BasePositions(l) ==
    (Len(rstrip(l)) - Len(split(l)[Len(split(l))]) + 1)..Len(rstrip(l))

\* the texts that differ from t in exactly one base character of one data
\* line
OneBaseChanged(t) ==
    LET ls == readlines(t)
    IN  {join([ls EXCEPT ![i][k] = c]) :
            <<i, k, c>> \in
               {x \in DataLines(ls) \X (1..(NameLimit + 4)) \X BaseChars :
                   /\ x[2] \in BasePositions(ls[x[1]])
                   /\ x[3] # ls[x[1]][x[2]]}}

ColumnLists ==
    UNION {[1..n -> 0..MaxColumnIndex] : n \in 0..MaxColumns}

\* A new Alignment a, a new Alignment other, and a text to parse.
TextInit ==
    /\ text \in Texts
    /\ stream = AnyStream
    /\ a = new_alignment
    /\ other = new_alignment
    /\ same = NoAnswer
    /\ written = <<>>
    /\ sub = NoSubset
    /\ before = a
    /\ p = new_parser(NoAlphabet)
    /\ pc = "idle"
    /\ raised = "none"
    /\ caller = "none"
    /\ eof = FALSE
    /\ nread = 0
    /\ line = <<>>
    /\ cur_species = 0
    /\ species_num = 0
    /\ blank_lines = 0
    /\ log = "none"
    /\ last_write = NoWrite
    /\ lens = <<>>
    /\ names = <<>>

\* a.parse(text), lines 278-280 and 261-262: stream = StringIO(text),
\* p = AlignmentParser(stream), then p.parse() begins
Parse ==
    /\ pc = "idle" /\ Running
    /\ stream' = StringIO(text)
    /\ p' = new_parser(NoAlphabet)
    /\ caller' = "Alignment"
    /\ pc' = "parse_header"
    /\ UNCHANGED <<raised, eof, nread, line, cur_species, species_num,
                   blank_lines, a, log, before, last_write, lens, names,
                   text, other, same, written, sub>>

\* other.parse(t) begins, t being the text a was parsed from, that text with
\* one base changed, or what a.write_phylip wrote
ParseOther ==
    /\ pc \in {"copied", "written"} /\ Running
    /\ \E t \in (IF pc = "written" THEN {written}
                  ELSE {text} \cup OneBaseChanged(text)) :
          stream' = StringIO(t)
    /\ p' = new_parser(NoAlphabet)
    /\ caller' = "other"
    /\ pc' = "parse_header"
    /\ eof' = FALSE
    /\ nread' = 0
    /\ line' = <<>>
    /\ last_write' = NoWrite
    /\ lens' = <<>>
    /\ names' = <<>>
    /\ UNCHANGED <<raised, cur_species, species_num, blank_lines, a, log,
                   before, text, other, same, written, sub>>

\* Alignment.parse_stream, lines 265-267, for other
CopyOutOther ==
    /\ pc = "done" /\ Running
    /\ caller = "other"
    /\ other' = [other EXCEPT !.sequence_length = p.sequence_length,
                              !.species = p.species,
                              !.data = p.data]
    /\ pc' = "copied_other"
    /\ UNCHANGED <<p, raised, caller, eof, nread, line, cur_species,
                   species_num, blank_lines, a, log, before, last_write, lens,
                   names, stream, text, same, written, sub>>

\* a.same_as(other) and other.same_as(a)
SameAs ==
    /\ pc = "copied_other" /\ Running
    /\ same' = [called |-> TRUE, ab |-> same_as(a, other),
                ba |-> same_as(other, a)]
    /\ pc' = "compared"
    /\ UNCHANGED <<p, raised, caller, eof, nread, line, cur_species,
                   species_num, blank_lines, a, log, before, last_write, lens,
                   names, stream, text, other, written, sub>>

\* a.write_phylip(stream)
WritePhylip ==
    /\ pc = "copied" /\ Running
    /\ written' = write_phylip(a)
    /\ pc' = "written"
    /\ UNCHANGED <<p, raised, caller, eof, nread, line, cur_species,
                   species_num, blank_lines, a, log, before, last_write, lens,
                   names, stream, text, other, same, sub>>

\* SubsetAlignment(a, subset)
Subset ==
    /\ pc = "copied" /\ Running
    /\ \E columns \in ColumnLists : sub' = SubsetAlignment(a, columns)
    /\ pc' = "subset"
    /\ UNCHANGED <<p, raised, caller, eof, nread, line, cur_species,
                   species_num, blank_lines, a, log, before, last_write, lens,
                   names, stream, text, other, same, written>>

TextNext ==
    \/ Parse
    \/ ParseHeader
    \/ Allocate
    \/ EnterSpeciesBlock
    \/ SpeciesLine
    \/ LeaveSpeciesBlock
    \/ EnterInterleaveBlock
    \/ InterleaveLine
    \/ LeaveInterleaveBlock
    \/ CopyOut
    \/ ParseOther
    \/ CopyOutOther
    \/ SameAs
    \/ WritePhylip
    \/ Subset

TextSpec == TextInit /\ [][TextNext]_vars

-----------------------------------------------------------------------------
(* Properties *)

\* the run is inside the loop of a block
InBlock == pc \in {"species_loop", "interleave_loop"}

\* the local that counts the data lines of the block the run is in
LinesOfBlock == IF pc = "species_loop" THEN cur_species ELSE species_num

\* C1: when the stream has ended (readline has returned the empty string)
\* while parse_header is still looking for the header, or while the
\* sequential block still lacks some of its species_count lines, the parse has
\* stopped with AlignmentError.
C1_EndOfInputStopsParse ==
    /\ (pc = "parse_header" /\ eof) => raised = "AlignmentError"
    /\ (pc = "species_loop" /\ eof /\ cur_species < p.species_count)
          => raised = "AlignmentError"

\* C2: in a block whose first data line gave end_base > sequence_length the
\* parse has failed with the more-than-the-header AlignmentError and no line of
\* the block was written.
C2_OverflowIsFormatError ==
    (InBlock /\ p.block_len # None /\ p.end_base > p.sequence_length)
        => /\ raised = "AlignmentError"
           /\ log = "more_than_header"
           /\ lens = <<>>
           /\ ~last_write.attempted \/ last_write.stop # p.end_base

\* C3: every matrix assignment the parser attempts is in bounds: its row is
\* below species_count, 0 <= start <= stop <= sequence_length, it has
\* stop - start codes, and the matrix stored it whole.
C3_WritesInBounds ==
    last_write.attempted
        => /\ last_write.row < p.species_count
           /\ 0 <= last_write.start
           /\ last_write.start <= last_write.stop
           /\ last_write.stop <= p.sequence_length
           /\ last_write.stop - last_write.start = last_write.n
           /\ last_write.outcome = "stored"

\* the header step has taken a non-blank line
HeaderLineTaken ==
    /\ pc \in {"parse_header", "allocate"}
    /\ Len(strip(line)) # 0

\* C4: the first non-blank line is the header: two integer tokens S and C set
\* species_count = S and sequence_length = C, and any other line ends the parse
\* with the no-header AlignmentError.
C4_HeaderOrFormatError ==
    HeaderLineTaken
        => LET bits == split(line)
           IN  IF Len(bits) = 2 /\ is_int(bits[1]) /\ is_int(bits[2])
               THEN /\ pc = "allocate"
                    /\ p.species_count = int(bits[1])
                    /\ p.sequence_length = int(bits[2])
               ELSE /\ raised = "AlignmentError"
                    /\ log = "no_header"

\* a pass of the loop of the block the run is in reads a (non-empty) line
ReadsLine ==
    /\ InBlock /\ Running
    /\ LinesOfBlock < p.species_count
    /\ nread' = nread + 1

\* a pass of the loop of parse_interleave_block reads a (non-empty) line
InterleaveReadsLine == pc = "interleave_loop" /\ ReadsLine

\* a pass of the loop of parse_interleave_block reads the end of the stream
InterleaveReadsEnd ==
    /\ pc = "interleave_loop" /\ Running
    /\ species_num < p.species_count
    /\ eof'

\* l is a data line of the block the run is in
IsDataLine(l) ==
    IF pc = "species_loop" THEN Len(split(l)) = 2 ELSE Len(strip(l)) # 0

\* the bases of the data line l of the block the run is in
BasesOf(l) == IF pc = "species_loop" THEN split(l)[2] ELSE strip(l)

C5_Step ==
    /\ (InBlock /\ pc' = pc /\ p.block_len # None)
          => p'.block_len = p.block_len
    /\ (ReadsLine /\ p.block_len = None /\ lens' # lens)
          => p'.block_len = Len(BasesOf(line'))
    /\ (ReadsLine /\ p.block_len # None /\ IsDataLine(line')
           /\ Len(BasesOf(line')) # p.block_len)
          => /\ raised' = "AlignmentError"
             /\ log' = "differs_in_length"
             /\ lens' = lens
             /\ p'.data = p.data
    /\ \A i \in 1..Len(lens') : lens'[i] = p'.block_len
    /\ (InBlock /\ pc' = "parse_interleave_block")
          => Len(lens) = p.species_count

\* C5: in every block block_len is set by the first data line and stays until
\* the block ends; a later data line of another length ends the parse with the
\* differs-in-length AlignmentError and is not written; the lines a block has
\* accepted all have block_len bases, and a block that completes has accepted
\* species_count of them.
C5_BlockLenFixed == [][C5_Step]_vars

\* an interleaved block met a second line of another length
C5_Witness ==
    /\ pc = "interleave_loop"
    /\ raised = "AlignmentError" /\ log = "differs_in_length"
    /\ Len(lens) = 1 /\ p.cur_len # p.block_len

C6_Step ==
    /\ InterleaveReadsEnd
          => IF species_num = 0
             THEN pc' = "done" /\ raised' = "none"
             ELSE /\ pc' = pc
                  /\ raised' = "AlignmentError"
                  /\ log' = "not_enough_lines"
    /\ (pc = "interleave_loop" /\ pc' = "done")
          => eof' /\ species_num = 0 /\ lens = <<>>
    /\ (pc = "interleave_loop" /\ Running /\ species_num = p.species_count)
          => (pc' = "parse_interleave_block" /\ raised' = "none")
             \/ UNCHANGED vars
    /\ (pc = "parse_interleave_block" /\ Running)
          => (pc' = "interleave_loop" /\ species_num' = 0) \/ UNCHANGED vars

\* C6: in an interleaved block the end of the stream ends the parse normally
\* only when no data line of the block was read (species_num = 0); after one
\* or more it is the not-enough-lines AlignmentError; a block that has read
\* species_count lines returns True and another attempt follows.
C6_EndOfStreamInInterleave == [][C6_Step]_vars

\* the stream ended after one of the two lines of an interleaved block
C6_Witness ==
    /\ pc = "interleave_loop" /\ eof
    /\ species_num = 1 /\ p.species_count = 2
    /\ raised = "AlignmentError" /\ log = "not_enough_lines"

C7_Step ==
    /\ (InterleaveReadsLine /\ blank_lines = 0 /\ Len(strip(line')) # 0)
          => /\ raised' = "AlignmentError"
             /\ log' = "expected_blank"
             /\ species_num' = species_num
             /\ p'.data = p.data
    /\ (pc' = "interleave_loop" /\ species_num' > 0) => blank_lines' >= 1
    /\ (pc = "parse_interleave_block" /\ pc' = "interleave_loop")
          => blank_lines' = 0

\* C7: a data line read in an interleaved block attempt whose blank-line
\* counter is 0 ends the parse with the expected-a-blank-line AlignmentError
\* and is not written; the counter starts at 0 in every attempt, so every
\* block that has read a data line has read a blank line before it.
C7_BlankSeparatorNeeded == [][C7_Step]_vars

\* header, one name + bases line (species_count = 1), then a line of bases
\* with no blank line between: the block before was the sequential block
C7_Witness ==
    /\ pc = "interleave_loop" /\ nread = 3 /\ p.species_count = 1
    /\ raised = "AlignmentError" /\ log = "expected_blank"

C8_Step ==
    (InterleaveReadsLine /\ Len(strip(line')) = 0)
        => IF species_num = 0
           THEN /\ raised' = "none"
                /\ blank_lines' = blank_lines + 1
                /\ pc' = pc /\ species_num' = 0
                /\ p'.data = p.data
           ELSE /\ raised' = "AlignmentError"
                /\ log' = "blank_in_block"
                /\ blank_lines' = blank_lines

\* C8: in an interleaved block a blank line read before any data line of the
\* block is skipped and counted in blank_lines; a blank line read after a data
\* line of the block ends the parse with the blank-line-in-block
\* AlignmentError.
C8_BlankLineOnlyBeforeData == [][C8_Step]_vars

\* a blank line came after the first of the two lines of an interleaved block
C8_Witness ==
    /\ pc = "interleave_loop" /\ Len(strip(line)) = 0 /\ ~eof
    /\ species_num = 1 /\ p.species_count = 2
    /\ raised = "AlignmentError" /\ log = "blank_in_block"

\* C9: a parse called through Alignment.parse_stream that has not returned
\* (it is running, or it raised anywhere) has left the Alignment as it was
\* when the call was made; the fields change only in the copy after the parser
\* is done, and then to the parser's values.
C9_FailureLeavesAlignment ==
    /\ raised # "none" => a = before
    /\ pc # "copied" => a = before
    /\ pc = "copied"
          => /\ caller = "Alignment"
             /\ a.species = p.species
             /\ a.sequence_length = p.sequence_length
             /\ a.data = p.data

\* a parse into a filled Alignment raised in an interleaved block, the parser
\* holding a name and a partly written matrix of another shape
C9_Witness ==
    /\ caller = "Alignment" /\ before = filled_alignment
    /\ pc = "interleave_loop" /\ raised # "none"
    /\ p.species # before.species
    /\ p.data.shape = <<2, 2>> /\ p.data.cell[0][0] # 0

\* the matrix m has rows x cols cells
HasShape(m, rows, cols) ==
    /\ m.shape = <<rows, cols>>
    /\ DOMAIN m.cell = 0..(rows - 1)
    /\ \A r \in 0..(rows - 1) : DOMAIN m.cell[r] = 0..(cols - 1)

\* C10: after a parse that returned, the parser holds species_count names,
\* the names of the accepted name + bases lines in their order, and a matrix
\* of species_count rows and sequence_length columns; so does the Alignment
\* after the copy.
C10_CompleteShape ==
    /\ pc \in {"done", "copied"}
          => /\ Len(p.species) = p.species_count
             /\ p.species = names
             /\ HasShape(p.data, p.species_count, p.sequence_length)
    /\ pc = "copied"
          => /\ a.species = names
             /\ HasShape(a.data, Len(a.species), a.sequence_length)
             /\ a.sequence_length = p.sequence_length

\* a parse of two lines with the same name returned and was copied
C10_Witness ==
    /\ pc = "copied"
    /\ a.species = << <<"s">>, <<"s">> >>
    /\ a.data.shape = <<2, 2>>

\* the pass that reads l in the block the run is in gets as far as
\* bases_to_array: l is a data line, an interleaved one comes after a blank
\* line, and check_block lets it through
ReachesEncoder(l) ==
    /\ IsDataLine(l)
    /\ pc = "interleave_loop" => blank_lines # 0
    /\ IF p.block_len = None
       THEN p.start_base + Len(BasesOf(l)) <= p.sequence_length + 1
       ELSE Len(BasesOf(l)) = p.block_len

\* the fragment has a character whose upper-case form is not in the alphabet
HasInvalidSymbol(bases) ==
    \E i \in 1..Len(bases) :
        IF IsIn(Lower, bases[i])
        THEN \A j \in 1..26 :
                bases[i] = Lower[j] => Upper[j] \notin p.valid_bases.chars
        ELSE bases[i] \notin p.valid_bases.chars

\* the byte of the upper-case form of a letter of either case
LetterCode(c) ==
    CHOOSE k \in 65..90 : c = Upper[k - 64] \/ c = Lower[k - 64]

C11_Step ==
    (ReadsLine /\ ReachesEncoder(line'))
        => LET bases == BasesOf(line')
           IN  IF p.valid_bases.configured /\ HasInvalidSymbol(bases)
               THEN /\ raised' = "AlignmentError"
                    /\ log' = "invalid_bases"
                    /\ p'.data = p.data
                    /\ lens' = lens
               ELSE /\ raised' \in {"none", "ValueError"}
                    /\ last_write'.attempted
                    /\ last_write'.row = LinesOfBlock
                    /\ last_write'.n = Len(bases)
                    /\ last_write'.outcome = "stored"
                          => \A i \in 1..Len(bases) :
                                LET code == p'.data.cell[LinesOfBlock]
                                                        [p'.start_base + i - 1]
                                IN  IF IsIn(Upper, bases[i]) \/ IsIn(Lower, bases[i])
                                    THEN code = LetterCode(bases[i])
                                    ELSE code = ord(bases[i])

\* C11: a fragment that reaches bases_to_array is refused with the
\* invalid-bases AlignmentError exactly when an alphabet is configured and some
\* character's upper-case form is outside it; otherwise it is encoded one code
\* per character, in order, a letter of either case as the byte of its
\* upper-case form.
C11_ValidateAndEncode == [][C11_Step]_vars

\* with the nucleotide alphabet configured the lower-case line "c" was
\* accepted and stored as the byte of "C"
C11_Witness ==
    /\ p.valid_bases = valid_nucleotide
    /\ line = <<"c", "\n">> /\ raised = "none"
    /\ last_write.attempted /\ last_write.outcome = "stored"
    /\ lens # <<>>
    /\ p.data.cell[last_write.row][last_write.start] = 67

\* the step of the parser each value of pc may be followed by
Successors ==
    [idle                   |-> {"parse_header"},
     parse_header           |-> {"parse_header", "allocate"},
     allocate               |-> {"allocate", "parse_species_block"},
     parse_species_block    |-> {"species_loop"},
     species_loop           |-> {"species_loop", "parse_interleave_block"},
     parse_interleave_block |-> {"interleave_loop"},
     interleave_loop        |-> {"interleave_loop", "parse_interleave_block",
                                 "done"},
     done                   |-> {"copied"},
     copied                 |-> {}]

C16_Step ==
    /\ pc' \in Successors[pc]
    /\ pc \in {"idle", "parse_header", "allocate"} => p.data = NoData
    /\ p'.data # p.data /\ p.data = NoData
          => /\ pc = "allocate" /\ pc' = "parse_species_block"
             /\ p.species_count >= 0 /\ p.sequence_length >= 0
             /\ p'.data.shape = <<p.species_count, p.sequence_length>>
             /\ DOMAIN p'.data.cell = 0..p.species_count - 1
             /\ \A r \in 0..p.species_count - 1 :
                   /\ DOMAIN p'.data.cell[r] = 0..p.sequence_length - 1
                   /\ \A c \in 0..p.sequence_length - 1 : p'.data.cell[r][c] = 0
             /\ p.species = <<>> /\ names = <<>> /\ lens = <<>>
             /\ ~last_write.attempted
    /\ p.data # NoData => p'.data # NoData /\ p'.data.shape = p.data.shape
    /\ p'.species # p.species => pc = "species_loop" /\ pc' = "species_loop"
    /\ pc' = "done" /\ pc # "done"
          => /\ pc = "interleave_loop"
             /\ ~eof /\ eof' /\ line' = <<>>
             /\ species_num = 0 /\ lens = <<>>

\* C16: the steps of a parse follow one another in the order header, the
\* sequential block once, interleaved blocks, done; the matrix is allocated
\* once, between the header and the first data line, with shape
\* (species_count, sequence_length) and zero cells, and keeps its shape; names
\* are recorded only in the sequential block; done is entered only from an
\* interleaved block whose first read, before any data line, met the end of
\* the stream.
C16_StepOrder == [][C16_Step]_vars

\* a parse of two species went through the sequential block and one whole
\* interleaved block and is done
C16_Witness ==
    /\ pc = "done" /\ raised = "none"
    /\ Len(p.species) = 2 /\ p.start_base = 2
    /\ p.data.shape = <<2, 2>>

\* the step accepted a data line: its bases were written to the matrix
WritesLine == InBlock /\ Len(lens') = Len(lens) + 1

C17_Step ==
    /\ pc \in {"idle", "parse_header", "allocate", "parse_species_block",
               "species_loop"} => p.start_base = 0
    /\ p'.start_base # p.start_base
          => /\ InBlock /\ LinesOfBlock = p.species_count
             /\ pc' = "parse_interleave_block"
             /\ p.block_len # None
             /\ p'.start_base = p.start_base + p.block_len
    /\ WritesLine
          => /\ p'.end_base = p'.start_base + p'.block_len
             /\ last_write'.row = Len(lens)
             /\ last_write'.start = p'.start_base
             /\ last_write'.stop = p'.end_base
             /\ last_write'.n = p'.block_len
             /\ lens # <<>> => /\ last_write'.start = last_write.start
                               /\ last_write'.stop = last_write.stop
             /\ (lens = <<>> /\ pc = "interleave_loop")
                   => last_write'.start = last_write.stop
    /\ p.data # NoData
          => \A r \in DOMAIN p.data.cell : \A c \in DOMAIN p.data.cell[r] :
                (c < p.start_base \/ ~WritesLine \/ r # Len(lens))
                    => p'.data.cell[r][c] = p.data.cell[r][c]

\* C17: start_base is 0 until the sequential block has completed and changes
\* only when a block completes, by that block's block_len; every line written
\* in a block goes to the row of its position in the block and to the columns
\* start_base up to end_base = start_base + block_len, the same for all lines
\* of the block; the first line of the next block starts where the last block
\* stopped, and no step changes a cell left of start_base or outside the row
\* it writes.
C17_ColumnCursor == [][C17_Step]_vars

\* the second line of an interleaved block was stored in row 1, column 1, after
\* a sequential block of one column
C17_Witness ==
    /\ pc = "interleave_loop" /\ raised = "none"
    /\ Len(lens) = 2 /\ p.start_base = 1
    /\ last_write.row = 1 /\ last_write.start = 1 /\ last_write.stop = 2
    /\ last_write.outcome = "stored"

\* the parse has returned or has raised
Stopped == pc \in {"done", "copied"} \/ raised # "none"

\* C18: on a stream that ends, a parse that keeps running eventually stops:
\* it returns or it raises.
C18_ParseStops == <>Stopped

\* C19: when parse has returned, the column cursor has reached the declared
\* width: start_base = sequence_length.
C19_AllColumnsFilled ==
    (pc \in {"done", "copied"} /\ raised = "none")
        => p.start_base = p.sequence_length

\* some index of the subset is not below the source's sequence_length
OutOfRange ==
    \E i \in 1..Len(sub.columns) : sub.columns[i] >= a.sequence_length

\* n is the largest index of the subset
IsLargestIndex(n) ==
    /\ \E i \in 1..Len(sub.columns) : sub.columns[i] = n
    /\ \A i \in 1..Len(sub.columns) : sub.columns[i] <= n

\* C12 as the specification states it: a subset with an index not below the
\* source's sequence_length raises AlignmentError, builds nothing, and reports
\* the largest index supplied and the source's length; a subset with every
\* index below it raises no AlignmentError.
C12_ReportsLargestIndex ==
    pc = "subset"
        => IF OutOfRange
           THEN /\ sub.raised = "AlignmentError" /\ ~sub.built
                /\ sub.log.said
                /\ IsLargestIndex(sub.log.site)
                /\ sub.log.sites = a.sequence_length
           ELSE sub.raised # "AlignmentError" /\ ~sub.log.said

\* C12: a subset with an index not below the source's sequence_length raises
\* AlignmentError, builds nothing, and reports the number of sites it needs,
\* which is the largest index supplied plus one, and the source's length; a
\* subset with every index below it raises no AlignmentError.
C12_ReportsSitesNeeded ==
    pc = "subset"
        => IF OutOfRange
           THEN /\ sub.raised = "AlignmentError" /\ ~sub.built
                /\ sub.log.said
                /\ IsLargestIndex(sub.log.site - 1)
                /\ sub.log.sites = a.sequence_length
           ELSE sub.raised # "AlignmentError" /\ ~sub.log.said

\* columns 0 and 2 were asked of a source of two columns
C12_Witness ==
    /\ pc = "subset" /\ a.sequence_length = 2
    /\ sub.columns = <<0, 2>>
    /\ sub.raised = "AlignmentError" /\ sub.log.site = 3

C13_Step ==
    (pc = "copied" /\ pc' = "subset")
        => LET columns == sub'.columns
               InRange == /\ columns # <<>>
                          /\ \A j \in 1..Len(columns) :
                                columns[j] \in 0..a.sequence_length - 1
           IN  /\ a' = a
               /\ sub'.built => InRange
               /\ InRange
                     => /\ sub'.built /\ sub'.raised = "none"
                        /\ sub'.alignment.species = a.species
                        /\ sub'.alignment.sequence_length = Len(columns)
                        /\ sub'.alignment.data.shape
                              = <<Len(a.species), Len(columns)>>
                        /\ \A r \in 0..Len(a.species) - 1 :
                              \A j \in 1..Len(columns) :
                                 sub'.alignment.data.cell[r][j - 1]
                                    = a.data.cell[r][columns[j]]

\* C13: a SubsetAlignment is built exactly from column lists that are not
\* empty and whose indices are all below the source's sequence_length; it has
\* the source's species list, sequence_length = the number of columns asked
\* for, and in every row its j-th column is the source's column columns[j];
\* the source is left as it was.
C13_SubsetIsProjection == [][C13_Step]_vars

\* columns 1 and 0 of the row "AC" were taken, in that order
C13_Witness ==
    /\ pc = "subset" /\ sub.built
    /\ sub.columns = <<1, 0>>
    /\ a.data.cell[0][0] = 65 /\ a.data.cell[0][1] = 67
    /\ sub.alignment.data.cell[0][0] = 67
    /\ sub.alignment.data.cell[0][1] = 65

\* a and other have both been parsed, other from a text that was not written
\* by write_phylip, and compared
Compared == pc = "compared" /\ written = <<>>

\* other was parsed from the very text a was parsed from
SameText == stream.lines = readlines(text)

\* the character of a's text and the character of other's text at the one
\* position where the two texts differ
ChangedBase ==
    LET la == readlines(text)
        lo == stream.lines
        at == CHOOSE x \in (1..Len(la)) \X (1..(NameLimit + 4)) :
                 /\ x[2] <= Len(la[x[1]])
                 /\ la[x[1]][x[2]] # lo[x[1]][x[2]]
    IN  <<la[at[1]][at[2]], lo[at[1]][at[2]]>>

\* the two characters are one letter, in lower and in upper case
SameLetter(cs) ==
    \E j \in 1..26 : {cs[1], cs[2]} = {Lower[j], Upper[j]}

\* same_as returned the given value in both directions, without raising
BothWays(value) ==
    /\ same.called
    /\ same.ab.raised = "none" /\ same.ba.raised = "none"
    /\ same.ab.value = value /\ same.ba.value = value

\* C14 as the specification states it: two Alignments parsed from one text
\* satisfy same_as in both directions; two parsed from texts that differ in
\* exactly one base character of one data line do not, in either direction.
C14_OneBaseTellsApart ==
    Compared => IF SameText THEN BothWays(TRUE) ELSE BothWays(FALSE)

\* C14: two Alignments parsed from one text satisfy same_as in both
\* directions.  Of two parsed from texts that differ in exactly one base
\* character of one data line, same_as is true in both directions when the two
\* characters are one letter in different case, and false in both directions
\* when they are not and the blocks of the text do not reach beyond the declared
\* sequence_length.
C14_SameAsComparesCodes ==
    Compared
        => IF SameText THEN BothWays(TRUE)
           ELSE IF SameLetter(ChangedBase) THEN BothWays(TRUE)
           ELSE p.start_base <= p.sequence_length => BothWays(FALSE)

\* "A" was changed to "C" in a text that fills its two columns, and same_as
\* was false both ways
C14_Witness ==
    /\ Compared /\ ~SameText
    /\ ChangedBase = <<"A", "C">>
    /\ p.start_base = 2 /\ p.sequence_length = 2
    /\ BothWays(FALSE)

\* the text is a header line "S C", then S lines of a name and bases, all
\* bases of one length that is at most C, and nothing else
WellFormedSequential(t) ==
    LET ls == readlines(t)
        bits(i) == split(ls[i])
    IN  /\ Len(ls) >= 2
        /\ Len(bits(1)) = 2 /\ is_int(bits(1)[1]) /\ is_int(bits(1)[2])
        /\ int(bits(1)[1]) = Len(ls) - 1
        /\ \A i \in 2..Len(ls) :
              /\ Len(bits(i)) = 2
              /\ Len(bits(i)[2]) = Len(bits(2)[2])
              /\ Len(bits(i)[2]) <= int(bits(1)[2])

\* a has been written by write_phylip (and other is being parsed, or has been
\* parsed, from what was written)
RoundTrip == written # <<>> /\ WellFormedSequential(text)

\* name is the first NameLimit characters of whole
Truncated(name, whole) ==
    /\ Len(name) = IF Len(whole) < NameLimit THEN Len(whole) ELSE NameLimit
    /\ \A k \in 1..Len(name) : name[k] = whole[k]

\* C15: what write_phylip writes for an Alignment parsed from a well-formed
\* sequential-only text parses again: the second parse neither raises nor runs
\* out of input, and gives the same sequence_length, the same matrix, and the
\* names cut to their first 99 characters.
C15_WriteThenParse ==
    RoundTrip
        => /\ raised = "none"
           /\ caller = "other" => ~eof \/ pc \notin {"parse_header", "species_loop"}
           /\ pc \in {"copied_other", "compared"}
                 => /\ other.sequence_length = a.sequence_length
                    /\ other.data = a.data
                    /\ Len(other.species) = Len(a.species)
                    /\ \A i \in 1..Len(a.species) :
                          Truncated(other.species[i], a.species[i])

\* the text "1 2", "<name of 100 characters> A" was parsed, written and
\* parsed again: the name lost its last character, and the column that was
\* never written came back as zero
C15_Witness ==
    /\ RoundTrip /\ pc = "copied_other"
    /\ Len(a.species[1]) = NameLimit + 1
    /\ Len(other.species[1]) = NameLimit
    /\ a.data.shape = <<1, 2>>
    /\ other.data.cell[0][0] = 65 /\ other.data.cell[0][1] = 0

=============================================================================
